---- MODULE Spec2Model ----
(***************************************************************************)
(* Model of the dfr0299 crate: the frame encoder (control.rs), the         *)
(* byte-at-a-time frame parser (parser.rs) and the response decoder        *)
(* (response.rs).  Bytes are naturals in 0..255, i16 values are integers   *)
(* in -32768..32767 with wrapping arithmetic.                              *)
(***************************************************************************)
EXTENDS Integers, Sequences, FiniteSets, TLC

VARIABLES
    \* Parser (parser.rs:65-73)
    state, cmd, feedback, param_h, param_l, checksum_h, checksum_l,
    \* value returned by the last call of Parser::process_byte
    result,
    \* the peripheral on the other end of the UART: the bytes of the frame
    \* it is sending, and what the read loop saw while it was sent
    tx, outs, fstate, fprev, run, completes,
    \* encoder: the caller's buffer, the last call and its return value
    buf, buf0, call, ret,
    \* decoder: the arguments given to Response::parse and its return value
    d_in, d_out,
    \* checksum: a payload, and the checksum bytes of encoder and parser
    k_in, k_enc, k_par,
    \* a raw byte stream: the byte process_byte was last called with, the
    \* state it was called in, and what the stream so far contained
    in_byte, in_state, sawStart, sawStartVersion, pfx,
    \* a second parser fed the same bytes as the first
    twin,
    \* counters over a stream: calls made, results other than Incomplete,
    \* calls since the last such result, calls between the last two of them,
    \* calls since the parser was in Idle
    calls, hits, since, gap, away,
    \* two frames that differ in the feedback byte, and what they return
    fb_in, fb_out

parserVars == <<state, cmd, feedback, param_h, param_l, checksum_h, checksum_l>>
lineVars == <<result, tx, outs, fstate, fprev, run, completes>>
encVars == <<buf, buf0, call, ret>>
decVars == <<d_in, d_out>>
ckVars == <<k_in, k_enc, k_par>>
rawVars == <<in_byte, in_state, sawStart, sawStartVersion, pfx>>
auxVars == <<twin, calls, hits, since, gap, away, fb_in, fb_out>>
vars == <<parserVars, lineVars, encVars, decVars, ckVars, rawVars, auxVars>>

(***************************************************************************)
(* Protocol constants                                                      *)
(***************************************************************************)
START == 126
STOP == 239
VERSION == 255
LEN == 6
FRAME_LEN == 10

Byte == 0..255

(***************************************************************************)
(* Integer conversions of the Rust code                                    *)
(***************************************************************************)
\* faulty variant: the accumulator is eight bits wide
WrapI8(x) == ((x + 128) % 256) - 128

\* wrap an integer to the range of i16
WrapI16(x) == ((x + 32768) % 65536) - 32768

\* i16::from(u8): zero extension
I16FromU8(b) == b

\* `x as u8` for an i16 or u16 x: the low eight bits
AsU8(x) == x % 256

\* `x >> 8` on an i16 (arithmetic shift) or a u16 (logical shift)
Shr8(x) == x \div 256

\* unary minus on an i16
NegI16(x) == WrapI16(0 - x)

\* sum::<i16>() over a sequence of i16
RECURSIVE SumI16(_)
SumI16(s) == IF s = <<>> THEN 0 ELSE WrapI16(Head(s) + SumI16(Tail(s)))

\* faulty variant: the bytes in little-endian order
I16ToLeBytes(x) == <<(x % 65536) % 256, (x % 65536) \div 256>>

\* i16::to_be_bytes
I16ToBeBytes(x) == <<(x % 65536) \div 256, (x % 65536) % 256>>

\* u16::from_be_bytes
U16FromBeBytes(h, l) == h * 256 + l

(***************************************************************************)
(* Results                                                                 *)
(***************************************************************************)
Ok(v) == [kind |-> "Ok", val |-> v]
Err(e) == [kind |-> "Err", err |-> e]

BufferTooShort == [tag |-> "BufferTooShort"]
BadChecksum == [tag |-> "BadChecksum"]
InvalidCommand(b) == [tag |-> "InvalidCommand", byte |-> b]
InvalidParameterValue == [tag |-> "InvalidParameterValue"]

Incomplete == [tag |-> "Incomplete"]
Complete(r) == [tag |-> "Complete", resp |-> r]

(***************************************************************************)
(* Response decoder (response.rs)                                          *)
(***************************************************************************)
\* faulty variant: an unlisted discriminant falls back to a default variant
Disk_try_from_default(b) ==
    CASE b = 1 -> Ok("UDisk")
      [] b = 2 -> Ok("Tf")
      [] b = 3 -> Ok("Pc")
      [] b = 4 -> Ok("Flash")
      [] b = 5 -> Ok("UDiskAndFlash")
      [] OTHER -> Ok("UDisk")

\* Disk::try_from(u8), derived by TryFromPrimitive
Disk_try_from(b) ==
    CASE b = 1 -> Ok("UDisk")
      [] b = 2 -> Ok("Tf")
      [] b = 3 -> Ok("Pc")
      [] b = 4 -> Ok("Flash")
      [] b = 5 -> Ok("UDiskAndFlash")
      [] OTHER -> Err(InvalidParameterValue)

\* ModuleErrorType::try_from(u8), derived by TryFromPrimitive
ModuleErrorType_try_from(b) ==
    CASE b = 0 -> Ok("Busy")
      [] b = 1 -> Ok("IncompleteFrameReceived")
      [] b = 2 -> Ok("ChecksumError")
      [] OTHER -> Err(InvalidParameterValue)

\* `Variant(x?)`: the error of x, or x's value wrapped in the variant
WithDisk(tag, r) ==
    IF r.kind = "Err" THEN r ELSE Ok([tag |-> tag, disk |-> r.val])

WithModuleError(r) ==
    IF r.kind = "Err" THEN r ELSE Ok([tag |-> "ModuleError", error |-> r.val])

Finish(tag, p) == Ok([tag |-> tag, param |-> p])

\* Response::parse
Response_parse(c, ph, pl) ==
    LET p == U16FromBeBytes(ph, pl) IN
    CASE c = 64 -> WithModuleError(ModuleErrorType_try_from(pl))
      [] c = 58 -> WithDisk("DiskInserted", Disk_try_from(pl))
      [] c = 59 -> WithDisk("DiskRemoved", Disk_try_from(pl))
      [] c = 60 -> Finish("UDiskFinishPlayback", p)
      [] c = 61 -> Finish("TfFinishPlayback", p)
      [] c = 62 -> Finish("FlashFinishPlayback", p)
      [] c = 63 -> WithDisk("DiskOnline", Disk_try_from(pl))
      [] c = 65 -> Ok([tag |-> "Ack"])
      [] OTHER -> Err(InvalidCommand(c))

(***************************************************************************)
(* Frame parser (parser.rs)                                                *)
(***************************************************************************)
ParserStates ==
    {"Idle", "Start", "Version", "Len", "Cmd", "Feedback", "ParamH",
     "ParamL", "ChecksumH", "ChecksumL"}

\* faulty variant: the bytes widened with sign extension (0xFF counts as -1)
calculate_checksum_sext(c, f, ph, pl) ==
    LET sx(b) == IF b >= 128 THEN b - 256 ELSE b IN
    NegI16(SumI16(<<sx(255), sx(LEN), sx(c), sx(f), sx(ph), sx(pl)>>))

\* faulty variant: the feedback byte is left out of the sum
calculate_checksum_no_feedback(c, f, ph, pl) ==
    NegI16(SumI16(<<I16FromU8(255), I16FromU8(LEN), I16FromU8(c),
                    I16FromU8(ph), I16FromU8(pl)>>))

\* Parser::calculate_checksum, on the parser's fields
calculate_checksum(c, f, ph, pl) ==
    NegI16(SumI16(<<I16FromU8(255), I16FromU8(LEN), I16FromU8(c),
                    I16FromU8(f), I16FromU8(ph), I16FromU8(pl)>>))

\* faulty variant: a START byte met in Start begins the frame again
NextState_restart(s, byte) ==
    CASE s = "Idle" -> IF byte = START THEN "Start" ELSE "Idle"
      [] s = "Start" -> IF byte = VERSION THEN "Version"
                        ELSE IF byte = START THEN "Start" ELSE "Idle"
      [] s = "Version" -> IF byte = LEN THEN "Len" ELSE "Idle"
      [] s = "Len" -> "Cmd"
      [] s = "Cmd" -> "Feedback"
      [] s = "Feedback" -> "ParamH"
      [] s = "ParamH" -> "ParamL"
      [] s = "ParamL" -> "ChecksumH"
      [] s = "ChecksumH" -> "ChecksumL"
      [] s = "ChecksumL" -> "Idle"

\* faulty variant: a START byte among the six stored bytes begins a new frame
NextState_payload_resync(s, byte) ==
    CASE s = "Idle" -> IF byte = START THEN "Start" ELSE "Idle"
      [] s = "Start" -> IF byte = VERSION THEN "Version" ELSE "Idle"
      [] s = "Version" -> IF byte = LEN THEN "Len" ELSE "Idle"
      [] s = "Len" -> IF byte = START THEN "Start" ELSE "Cmd"
      [] s = "Cmd" -> IF byte = START THEN "Start" ELSE "Feedback"
      [] s = "Feedback" -> IF byte = START THEN "Start" ELSE "ParamH"
      [] s = "ParamH" -> IF byte = START THEN "Start" ELSE "ParamL"
      [] s = "ParamL" -> IF byte = START THEN "Start" ELSE "ChecksumH"
      [] s = "ChecksumH" -> IF byte = START THEN "Start" ELSE "ChecksumL"
      [] s = "ChecksumL" -> "Idle"

\* faulty variant: a START byte in place of STOP begins a new frame
NextState_stop_resync(s, byte) ==
    CASE s = "Idle" -> IF byte = START THEN "Start" ELSE "Idle"
      [] s = "Start" -> IF byte = VERSION THEN "Version" ELSE "Idle"
      [] s = "Version" -> IF byte = LEN THEN "Len" ELSE "Idle"
      [] s = "Len" -> "Cmd"
      [] s = "Cmd" -> "Feedback"
      [] s = "Feedback" -> "ParamH"
      [] s = "ParamH" -> "ParamL"
      [] s = "ParamL" -> "ChecksumH"
      [] s = "ChecksumH" -> "ChecksumL"
      [] s = "ChecksumL" -> IF byte = START THEN "Start" ELSE "Idle"

\* faulty variant: Start accepts any byte as the version
NextState_any_version(s, byte) ==
    CASE s = "Idle" -> IF byte = START THEN "Start" ELSE "Idle"
      [] s = "Start" -> "Version"
      [] s = "Version" -> IF byte = LEN THEN "Len" ELSE "Idle"
      [] s = "Len" -> "Cmd"
      [] s = "Cmd" -> "Feedback"
      [] s = "Feedback" -> "ParamH"
      [] s = "ParamH" -> "ParamL"
      [] s = "ParamL" -> "ChecksumH"
      [] s = "ChecksumH" -> "ChecksumL"
      [] s = "ChecksumL" -> "Idle"

\* faulty variant: the STOP arm returns without resetting the state
NextState_no_reset(s, byte) ==
    CASE s = "Idle" -> IF byte = START THEN "Start" ELSE "Idle"
      [] s = "Start" -> IF byte = VERSION THEN "Version" ELSE "Idle"
      [] s = "Version" -> IF byte = LEN THEN "Len" ELSE "Idle"
      [] s = "Len" -> "Cmd"
      [] s = "Cmd" -> "Feedback"
      [] s = "Feedback" -> "ParamH"
      [] s = "ParamH" -> "ParamL"
      [] s = "ParamL" -> "ChecksumH"
      [] s = "ChecksumH" -> "ChecksumL"
      [] s = "ChecksumL" -> IF byte = STOP THEN "ChecksumL" ELSE "Idle"

\* the value the `match self.state` of process_byte leaves in self.state
\* (in ChecksumL: Idle, assigned before the early returns or by the arm)
NextState(s, byte) ==
    CASE s = "Idle" -> IF byte = START THEN "Start" ELSE "Idle"
      [] s = "Start" -> IF byte = VERSION THEN "Version" ELSE "Idle"
      [] s = "Version" -> IF byte = LEN THEN "Len" ELSE "Idle"
      [] s = "Len" -> "Cmd"
      [] s = "Cmd" -> "Feedback"
      [] s = "Feedback" -> "ParamH"
      [] s = "ParamH" -> "ParamL"
      [] s = "ParamL" -> "ChecksumH"
      [] s = "ChecksumH" -> "ChecksumL"
      [] s = "ChecksumL" -> "Idle"

\* faulty variant: the message is decoded before the checksum is tested
FrameResult_decode_first(c, f, ph, pl, ckh, ckl) ==
    LET r == Response_parse(c, ph, pl) IN
    IF r.kind = "Err" THEN r
    ELSE IF I16ToBeBytes(calculate_checksum(c, f, ph, pl)) # <<ckh, ckl>>
         THEN Err(BadChecksum)
         ELSE Ok(Complete(r.val))

\* the ChecksumL arm with byte == STOP: checksum test, then decoding
FrameResult(c, f, ph, pl, ckh, ckl) ==
    IF I16ToBeBytes(calculate_checksum(c, f, ph, pl)) # <<ckh, ckl>>
    THEN Err(BadChecksum)
    ELSE LET r == Response_parse(c, ph, pl) IN
         IF r.kind = "Err" THEN r ELSE Ok(Complete(r.val))

\* faulty variant: a STOP byte ends a frame in whatever state it arrives
ReturnValue_any_stop(s, byte, c, f, ph, pl, ckh, ckl) ==
    IF byte = STOP
    THEN FrameResult(c, f, ph, pl, ckh, ckl)
    ELSE Ok(Incomplete)

\* the value process_byte returns
ReturnValue(s, byte, c, f, ph, pl, ckh, ckl) ==
    IF s = "ChecksumL" /\ byte = STOP
    THEN FrameResult(c, f, ph, pl, ckh, ckl)
    ELSE Ok(Incomplete)

\* faulty variant: the six fields are cleared when a frame ends in ChecksumL
process_byte_clear(byte) ==
    /\ state' = NextState(state, byte)
    /\ cmd' = IF state = "Len" THEN byte
              ELSE IF state = "ChecksumL" THEN 0 ELSE cmd
    /\ feedback' = IF state = "Cmd" THEN byte
                   ELSE IF state = "ChecksumL" THEN 0 ELSE feedback
    /\ param_h' = IF state = "Feedback" THEN byte
                  ELSE IF state = "ChecksumL" THEN 0 ELSE param_h
    /\ param_l' = IF state = "ParamH" THEN byte
                  ELSE IF state = "ChecksumL" THEN 0 ELSE param_l
    /\ checksum_h' = IF state = "ParamL" THEN byte
                     ELSE IF state = "ChecksumL" THEN 0 ELSE checksum_h
    /\ checksum_l' = IF state = "ChecksumH" THEN byte
                     ELSE IF state = "ChecksumL" THEN 0 ELSE checksum_l
    /\ result' = ReturnValue(state, byte, cmd, feedback, param_h, param_l,
                             checksum_h, checksum_l)

\* Parser::process_byte(byte): effect on the parser and the returned value
process_byte(byte) ==
    /\ state' = NextState(state, byte)
    /\ cmd' = IF state = "Len" THEN byte ELSE cmd
    /\ feedback' = IF state = "Cmd" THEN byte ELSE feedback
    /\ param_h' = IF state = "Feedback" THEN byte ELSE param_h
    /\ param_l' = IF state = "ParamH" THEN byte ELSE param_l
    /\ checksum_h' = IF state = "ParamL" THEN byte ELSE checksum_h
    /\ checksum_l' = IF state = "ChecksumH" THEN byte ELSE checksum_l
    /\ result' = ReturnValue(state, byte, cmd, feedback, param_h, param_l,
                             checksum_h, checksum_l)

(***************************************************************************)
(* Commands (control.rs)                                                   *)
(***************************************************************************)
\* payloads the model draws for the u16 and u8 fields of a Command
U16Samples == {0, 1, 31, 256, 65535}
U8Samples == {0, 4, 123, 255}

EqMode == {"Normal", "Pop", "Rock", "Jazz", "Classic", "Base"}
PlaybackMode == {"Repeat", "FolderRepeat", "SingleRepeat", "Random"}
PlaybackSource == {"UDisk", "Tf", "Aux", "Sleep", "Flash"}
RequestAck == {"No", "Yes"}

\* `e as u16` for an EqMode
EqModeCode(e) ==
    CASE e = "Normal" -> 0 [] e = "Pop" -> 1 [] e = "Rock" -> 2
      [] e = "Jazz" -> 3 [] e = "Classic" -> 4 [] e = "Base" -> 5

\* `m as u16` for a PlaybackMode
PlaybackModeCode(m) ==
    CASE m = "Repeat" -> 0 [] m = "FolderRepeat" -> 1
      [] m = "SingleRepeat" -> 2 [] m = "Random" -> 3

\* `s as u16` for a PlaybackSource
PlaybackSourceCode(s) ==
    CASE s = "UDisk" -> 0 [] s = "Tf" -> 1 [] s = "Aux" -> 2
      [] s = "Sleep" -> 3 [] s = "Flash" -> 4

\* `request_ack as u8`
RequestAckCode(a) == IF a = "Yes" THEN 1 ELSE 0

\* `b as u8`, `b as u16` for a bool
BoolCode(b) == IF b THEN 1 ELSE 0

\* the variants of Command that carry no payload
UnitCommands ==
    {"Next", "Previous", "IncreaseVolume", "DecreaseVolume", "Standby",
     "Wake", "Reset", "Playback", "Pause", "Stay1", "Stay2", "Stay3",
     "RequestRetransmission", "Reply", "GetStatus", "GetVolume", "GetEq",
     "GetPlaybackMode", "GetSoftwareVersion", "GetTfFileCount",
     "GetUDiskFileCount", "GetFlashFileCount", "KeepOn",
     "GetTfCurrentTrack", "GetUDiskCurrentTrack", "GetFlashCurrentTrack"}

\* the values of Command, payloads drawn from the samples
Command ==
    {[tag |-> t] : t \in UnitCommands}
    \cup {[tag |-> t, v |-> n] :
            t \in {"Track", "SetVolume", "InitialisationParameters"},
            n \in U16Samples}
    \cup {[tag |-> "SetEq", mode |-> e] : e \in EqMode}
    \cup {[tag |-> "SetPlaybackMode", mode |-> m] : m \in PlaybackMode}
    \cup {[tag |-> "SetPlaybackSource", source |-> x] : x \in PlaybackSource}
    \cup {[tag |-> "SetFolder", folder |-> a, file |-> b] :
            a \in U8Samples, b \in U8Samples}
    \cup {[tag |-> "SetVolumeAdjust", enable |-> e, gain |-> g] :
            e \in BOOLEAN, g \in U8Samples}
    \cup {[tag |-> "RepeatPlay", on |-> r] : r \in BOOLEAN}

\* faulty variant: GetStatus numbered 0x42, the value the table skips
command_byte_status_42(c) ==
    CASE c.tag = "Next" -> 1
      [] c.tag = "Previous" -> 2
      [] c.tag = "Track" -> 3
      [] c.tag = "IncreaseVolume" -> 4
      [] c.tag = "DecreaseVolume" -> 5
      [] c.tag = "SetVolume" -> 6
      [] c.tag = "SetEq" -> 7
      [] c.tag = "SetPlaybackMode" -> 8
      [] c.tag = "SetPlaybackSource" -> 9
      [] c.tag = "Standby" -> 10
      [] c.tag = "Wake" -> 11
      [] c.tag = "Reset" -> 12
      [] c.tag = "Playback" -> 13
      [] c.tag = "Pause" -> 14
      [] c.tag = "SetFolder" -> 15
      [] c.tag = "SetVolumeAdjust" -> 16
      [] c.tag = "RepeatPlay" -> 17
      [] c.tag = "Stay1" -> 60
      [] c.tag = "Stay2" -> 61
      [] c.tag = "Stay3" -> 62
      [] c.tag = "InitialisationParameters" -> 63
      [] c.tag = "RequestRetransmission" -> 64
      [] c.tag = "Reply" -> 65
      [] c.tag = "GetStatus" -> 66
      [] c.tag = "GetVolume" -> 67
      [] c.tag = "GetEq" -> 68
      [] c.tag = "GetPlaybackMode" -> 69
      [] c.tag = "GetSoftwareVersion" -> 70
      [] c.tag = "GetTfFileCount" -> 71
      [] c.tag = "GetUDiskFileCount" -> 72
      [] c.tag = "GetFlashFileCount" -> 73
      [] c.tag = "KeepOn" -> 74
      [] c.tag = "GetTfCurrentTrack" -> 75
      [] c.tag = "GetUDiskCurrentTrack" -> 76
      [] c.tag = "GetFlashCurrentTrack" -> 77

\* Command::command_byte
command_byte(c) ==
    CASE c.tag = "Next" -> 1
      [] c.tag = "Previous" -> 2
      [] c.tag = "Track" -> 3
      [] c.tag = "IncreaseVolume" -> 4
      [] c.tag = "DecreaseVolume" -> 5
      [] c.tag = "SetVolume" -> 6
      [] c.tag = "SetEq" -> 7
      [] c.tag = "SetPlaybackMode" -> 8
      [] c.tag = "SetPlaybackSource" -> 9
      [] c.tag = "Standby" -> 10
      [] c.tag = "Wake" -> 11
      [] c.tag = "Reset" -> 12
      [] c.tag = "Playback" -> 13
      [] c.tag = "Pause" -> 14
      [] c.tag = "SetFolder" -> 15
      [] c.tag = "SetVolumeAdjust" -> 16
      [] c.tag = "RepeatPlay" -> 17
      [] c.tag = "Stay1" -> 60
      [] c.tag = "Stay2" -> 61
      [] c.tag = "Stay3" -> 62
      [] c.tag = "InitialisationParameters" -> 63
      [] c.tag = "RequestRetransmission" -> 64
      [] c.tag = "Reply" -> 65
      [] c.tag = "GetStatus" -> 65
      [] c.tag = "GetVolume" -> 67
      [] c.tag = "GetEq" -> 68
      [] c.tag = "GetPlaybackMode" -> 69
      [] c.tag = "GetSoftwareVersion" -> 70
      [] c.tag = "GetTfFileCount" -> 71
      [] c.tag = "GetUDiskFileCount" -> 72
      [] c.tag = "GetFlashFileCount" -> 73
      [] c.tag = "KeepOn" -> 74
      [] c.tag = "GetTfCurrentTrack" -> 75
      [] c.tag = "GetUDiskCurrentTrack" -> 76
      [] c.tag = "GetFlashCurrentTrack" -> 77

\* Command::param
param(c) ==
    CASE c.tag = "Track" -> c.v
      [] c.tag = "SetVolume" -> c.v
      [] c.tag = "SetEq" -> EqModeCode(c.mode)
      [] c.tag = "SetPlaybackMode" -> PlaybackModeCode(c.mode)
      [] c.tag = "SetPlaybackSource" -> PlaybackSourceCode(c.source)
      [] c.tag = "SetFolder" -> U16FromBeBytes(c.folder, c.file)
      [] c.tag = "SetVolumeAdjust" ->
            U16FromBeBytes(BoolCode(c.enable), c.gain)
      [] c.tag = "RepeatPlay" -> BoolCode(c.on)
      [] OTHER -> 0

(***************************************************************************)
(* The serial line.  The peripheral sends frames of the layout documented  *)
(* in the crate (lib.rs, "Packet structure"), possibly damaged, and stray  *)
(* bytes between frames; the read loop hands every byte to process_byte.   *)
(***************************************************************************)
NoResult == [kind |-> "None"]

\* what a returned value is: Incomplete, Complete or the name of the error
ResultKind(r) ==
    CASE r.kind = "Ok" -> r.val.tag
      [] r.kind = "Err" -> r.err.tag
      [] OTHER -> "None"

\* the checksum of the packet documentation: the twos complement of the
\* sum over the packet bytes (excluding START), high byte first
WireChecksum(c, f, ph, pl) ==
    LET n == (65536 - (255 + 6 + c + f + ph + pl)) % 65536
    IN  <<n \div 256, n % 256>>

\* bytes the line carries at each position of a frame
CmdBytes == {59, 60, 65, START}
FeedbackBytes == {0, 1}
ParamHBytes == {0, STOP}
ParamLBytes == {1, 153}
StopBytes == {STOP, START}
NoiseBytes == {0, START, VERSION}

\* a received checksum byte: the right one or a damaged one
Damaged(b) == {b, (b + 1) % 256}

\* the bytes that may follow the prefix t of a frame on the line; at most
\* one of the two checksum bytes is damaged
FrameBytes(t) ==
    LET ck == WireChecksum(t[4], t[5], t[6], t[7]) IN
    CASE Len(t) = 0 -> {START}
      [] Len(t) = 1 -> {VERSION}
      [] Len(t) = 2 -> {LEN}
      [] Len(t) = 3 -> CmdBytes
      [] Len(t) = 4 -> FeedbackBytes
      [] Len(t) = 5 -> ParamHBytes
      [] Len(t) = 6 -> ParamLBytes
      [] Len(t) = 7 -> Damaged(ck[1])
      [] Len(t) = 8 -> IF t[8] = ck[1] THEN Damaged(ck[2]) ELSE {ck[2]}
      [] OTHER -> StopBytes

\* the frame on the line is complete
FrameDone == Len(tx) = FRAME_LEN

\* a well-framed frame: valid header and STOP byte
WellFramed(t) ==
    /\ Len(t) = FRAME_LEN
    /\ t[1] = START /\ t[2] = VERSION /\ t[3] = LEN /\ t[10] = STOP

\* a well-framed frame whose checksum bytes are those of its payload
ValidFrame(t) ==
    WellFramed(t) /\ <<t[8], t[9]>> = WireChecksum(t[4], t[5], t[6], t[7])

\* a valid frame the decoder accepts
GoodFrame(t) ==
    ValidFrame(t) /\ Response_parse(t[4], t[6], t[7]).kind = "Ok"

\* longest run of back-to-back frames that is followed
MaxRun == 2

\* the read loop is handed a stray byte between two frames
Noise(byte) ==
    /\ Len(tx) \in {0, FRAME_LEN}
    /\ process_byte(byte)
    /\ tx' = <<>>
    /\ outs' = <<>>
    /\ fstate' = "Idle"
    /\ fprev' = "None"
    /\ run' = 0
    /\ completes' = 0
    /\ UNCHANGED <<encVars, decVars, ckVars, rawVars, auxVars>>

\* the read loop is handed the next byte of the frame on the line
FrameByte(byte) ==
    LET first == Len(tx) \in {0, FRAME_LEN}
        cur == IF first THEN <<>> ELSE tx
        follows == /\ FrameDone
                   /\ GoodFrame(tx)
                   /\ (run > 0 \/ fstate = "Idle")
                   /\ run < MaxRun
        one == IF ResultKind(result') = "Complete" THEN 1 ELSE 0
    IN  /\ process_byte(byte)
        /\ tx' = Append(cur, byte)
        /\ outs' = Append(IF first THEN <<>> ELSE outs, result')
        /\ fstate' = IF first THEN state ELSE fstate
        /\ fprev' = IF first THEN ResultKind(result) ELSE fprev
        /\ run' = IF first THEN (IF follows THEN run + 1 ELSE 0) ELSE run
        /\ completes' = IF first /\ ~follows THEN one ELSE completes + one
        /\ UNCHANGED <<encVars, decVars, ckVars, rawVars, auxVars>>

NoCall == [tag |-> "None"]

\* Parser::new(): Default for every field
ParserNew ==
    /\ state = "Idle"
    /\ cmd = 0 /\ feedback = 0 /\ param_h = 0 /\ param_l = 0
    /\ checksum_h = 0 /\ checksum_l = 0

\* nothing read from the line yet
LineIdle ==
    /\ result = NoResult
    /\ tx = <<>> /\ outs = <<>> /\ fstate = "Idle" /\ fprev = "None"
    /\ run = 0 /\ completes = 0

\* the encoder, the decoder and the checksum not in use
EncUnused == buf = <<>> /\ buf0 = <<>> /\ call = NoCall /\ ret = NoResult
DecUnused == d_in = <<0, 0, 0>> /\ d_out = NoResult
CkUnused == k_in = <<0, 0, 0, 0>> /\ k_enc = <<>> /\ k_par = <<>>

\* no byte of a raw stream fed yet
RawUnused ==
    /\ in_byte = 0 /\ in_state = "Idle"
    /\ sawStart = FALSE /\ sawStartVersion = FALSE /\ pfx = 0

\* no second parser, nothing counted, no pair of frames
AuxUnused ==
    /\ twin = [tag |-> "None"]
    /\ calls = 0 /\ hits = 0 /\ since = 0 /\ gap = 0 /\ away = 0
    /\ fb_in = <<0, 0, 0, 0, 0>> /\ fb_out = <<>>

\* a new parser on an idle line
Init ==
    /\ ParserNew /\ LineIdle /\ EncUnused /\ DecUnused /\ CkUnused
    /\ RawUnused /\ AuxUnused

\* the bytes the frame on the line may continue with
LineBytes == FrameBytes(IF FrameDone THEN <<>> ELSE tx)

Next ==
    \/ \E byte \in NoiseBytes : Noise(byte)
    \/ \E byte \in LineBytes : FrameByte(byte)

Spec == Init /\ [][Next]_vars

(***************************************************************************)
(* Properties of the parser on the serial line                             *)
(***************************************************************************)
\* what Response::parse makes of the frame t
Decoded(t) == Response_parse(t[4], t[6], t[7])

\* nine Incomplete, then the response of frame t
NineThenComplete(t) ==
    [i \in 1..FRAME_LEN |->
        IF i < FRAME_LEN THEN Ok(Incomplete) ELSE Ok(Complete(Decoded(t).val))]

ErrorKinds == {"BadChecksum", "InvalidCommand", "InvalidParameterValue"}

\* C1: a frame with the right checksum that the decoder accepts, fed byte
\* by byte to a parser in Idle, returns Incomplete for its first nine bytes
\* and Complete(Response::parse(cmd, param_h, param_l)) on the tenth.
C1_FrameDecoded ==
    (FrameDone /\ GoodFrame(tx) /\ fstate = "Idle")
        => outs = NineThenComplete(tx)

\* the frame of the crate's test parse_udisk_remove, fed to an idle parser
C1_Witness ==
    /\ tx = <<126, 255, 6, 59, 0, 0, 1, 254, 191, 239>>
    /\ fstate = "Idle"
    /\ result = Ok(Complete([tag |-> "DiskRemoved", disk |-> "UDisk"]))

\* C2: a well-framed frame whose checksum bytes differ from the checksum of
\* its payload returns Err(BadChecksum) on the STOP byte, also when the
\* command or the parameter would not decode, and leaves the parser in Idle.
C2_BadChecksumFirst ==
    (FrameDone /\ WellFramed(tx) /\ ~ValidFrame(tx) /\ fstate = "Idle")
        => (result = Err(BadChecksum) /\ state = "Idle")

\* a damaged frame with an unknown command byte is reported as BadChecksum
C2_Witness ==
    /\ FrameDone /\ WellFramed(tx) /\ ~ValidFrame(tx) /\ fstate = "Idle"
    /\ Decoded(tx) = Err(InvalidCommand(START))
    /\ result = Err(BadChecksum)

\* C3 as stated: every well-framed frame with the right checksum is
\* accepted without any error, whatever cmd, feedback and parameters are.
C3_AcceptedWithoutError ==
    (FrameDone /\ ValidFrame(tx) /\ fstate = "Idle") => result.kind = "Ok"

\* C3 amended: a well-framed frame with the right checksum is never rejected
\* with BadChecksum: it returns Complete when Response::parse accepts its
\* command and parameter bytes, and the error of Response::parse otherwise.
C3_NeverBadChecksum ==
    (FrameDone /\ ValidFrame(tx) /\ fstate = "Idle")
        => /\ result # Err(BadChecksum)
           /\ result = IF Decoded(tx).kind = "Ok"
                       THEN Ok(Complete(Decoded(tx).val))
                       ELSE Decoded(tx)

\* a frame with the right checksum and an unknown command byte
C3_Witness ==
    /\ FrameDone /\ ValidFrame(tx) /\ fstate = "Idle"
    /\ result = Err(InvalidCommand(START))

\* C4: after any error the parser is in Idle, and a frame with the right
\* checksum that the decoder accepts, fed right after the error, returns
\* nine Incomplete and then its response, as on a fresh parser.
C4_ErrorNotFatal ==
    /\ result.kind = "Err" => state = "Idle"
    /\ (FrameDone /\ GoodFrame(tx) /\ fprev \in ErrorKinds)
           => outs = NineThenComplete(tx)

\* a frame decoded right after a frame that was rejected by the decoder
C4_Witness ==
    /\ FrameDone /\ GoodFrame(tx) /\ fprev = "InvalidParameterValue"
    /\ ResultKind(result) = "Complete"

\* C5: of frames fed back to back to a parser in Idle, all with the right
\* checksum and accepted by the decoder, each returns its own response on
\* its tenth byte and Incomplete before, so that after the k-th frame
\* exactly k Complete results have been returned.
C5_InOrder ==
    (Len(tx) > 0 /\ (run > 0 \/ fstate = "Idle"))
        => /\ (FrameDone /\ GoodFrame(tx))
                  => (outs = NineThenComplete(tx) /\ completes = run + 1)
           /\ ~FrameDone => completes = run

\* the third frame of a run has returned the third response
C5_Witness ==
    /\ FrameDone /\ GoodFrame(tx) /\ run >= 2 /\ completes = run + 1
    /\ result = Ok(Complete([tag |-> "UDiskFinishPlayback", param |-> 61185]))

(***************************************************************************)
(* Frame encoder (control.rs)                                              *)
(***************************************************************************)
\* longest buffer handed to the encoder
MaxBufLen == 12

\* faulty variant: the sum starts at START (buf[0..7])
EncodeChecksum_from_start(b) ==
    NegI16(SumI16([i \in 1..7 |-> I16FromU8(b[i])]))

\* faulty variant: the sum runs to the end of the buffer (buf[1..])
EncodeChecksum_to_end(b) ==
    NegI16(SumI16([i \in 1..(Len(b) - 1) |-> I16FromU8(b[i + 1])]))

\* the checksum of serialise_with_ack: minus the sum of buf[1..7]
EncodeChecksum(b) ==
    NegI16(SumI16([i \in 1..6 |-> I16FromU8(b[i + 1])]))

\* faulty variant: only an empty buffer is refused
TooShort_empty(b) == Len(b) = 0

\* the test `buf.len() < LEN` of serialise_with_ack
TooShort(b) == Len(b) < FRAME_LEN

\* buf[i] = x on a slice (index i counted from 0)
Put(b, i, x) == [b EXCEPT ![i + 1] = x]

\* the buffer after the writes of serialise_with_ack
Written(c, request_ack, b) ==
    LET p == param(c)
        b0 == Put(b, 0, START)
        b1 == Put(b0, 1, VERSION)
        b2 == Put(b1, 2, 6)
        b3 == Put(b2, 3, command_byte(c))
        b4 == Put(b3, 4, RequestAckCode(request_ack))
        b5 == Put(b4, 5, AsU8(Shr8(p)))
        b6 == Put(b5, 6, AsU8(p))
        checksum == EncodeChecksum(b6)
        b7 == Put(b6, 7, AsU8(Shr8(checksum)))
        b8 == Put(b7, 8, AsU8(checksum))
    IN  Put(b8, 9, STOP)

\* Command::serialise_with_ack(buf, request_ack) of command c
serialise_with_ack(c, request_ack) ==
    /\ buf0' = buf
    /\ IF TooShort(buf)
       THEN ret' = Err(BufferTooShort) /\ buf' = buf
       ELSE ret' = Ok(FRAME_LEN) /\ buf' = Written(c, request_ack, buf)
    /\ UNCHANGED <<parserVars, lineVars, decVars, ckVars, rawVars, auxVars>>

\* Command::serialise(buf) of command c
serialise(c) == serialise_with_ack(c, "No")

\* a caller serialises command c into its buffer
CallSerialise(c) ==
    /\ call = NoCall
    /\ call' = [fn |-> "serialise", cmd |-> c, ack |-> "No"]
    /\ serialise(c)

\* a caller serialises command c, choosing whether to request an ACK
CallSerialiseWithAck(c, request_ack) ==
    /\ call = NoCall
    /\ call' = [fn |-> "serialise_with_ack", cmd |-> c, ack |-> request_ack]
    /\ serialise_with_ack(c, request_ack)

\* contents a caller's buffer may hold before the call: zeroes, a fill
\* byte, or what an earlier frame and other data left in it
OldContents ==
    {[i \in 1..MaxBufLen + 1 |-> 0],
     [i \in 1..MaxBufLen + 1 |-> 170],
     <<126, 255, 6, 12, 1, 0, 0, 254, 238, 239>>
         \o [i \in 1..MaxBufLen |-> (17 * i) % 256]}

InitialBuffers ==
    {SubSeq(o, 1, n) : o \in OldContents, n \in 0..MaxBufLen}

\* a caller's buffer, nothing serialised yet
InitEnc ==
    /\ ParserNew /\ LineIdle /\ DecUnused /\ CkUnused /\ RawUnused /\ AuxUnused
    /\ buf \in InitialBuffers
    /\ buf0 = buf /\ call = NoCall /\ ret = NoResult

NextEnc ==
    \/ \E c \in Command : CallSerialise(c)
    \/ \E c \in Command, a \in RequestAck : CallSerialiseWithAck(c, a)

SpecEnc == InitEnc /\ [][NextEnc]_vars

(***************************************************************************)
(* Properties of the encoder                                               *)
(***************************************************************************)
Called == call # NoCall

\* the first ten bytes of the buffer
Frame(b) == SubSeq(b, 1, FRAME_LEN)

\* C6: into a buffer of at least ten bytes every command, whatever its
\* payload, is serialised as START, VERSION, 6, command_byte(), the ack
\* flag, param() high and low, the checksum high and low, STOP, and the
\* call returns Ok(10); serialise writes the ack flag 0.  Track(1) and
\* SetPlaybackSource(Flash) give the frames of the crate's tests.
C6_FrameLayout ==
    (Called /\ Len(buf0) >= FRAME_LEN)
        => /\ ret = Ok(10)
           /\ buf[1] = 126 /\ buf[2] = 255 /\ buf[3] = 6
           /\ buf[4] = command_byte(call.cmd)
           /\ buf[5] = (IF call.ack = "Yes" THEN 1 ELSE 0)
           /\ buf[6] = param(call.cmd) \div 256
           /\ buf[7] = param(call.cmd) % 256
           /\ <<buf[8], buf[9]>> = WireChecksum(buf[4], buf[5], buf[6], buf[7])
           /\ buf[10] = 239
           /\ call.fn = "serialise" => buf[5] = 0
           /\ (call.cmd = [tag |-> "Track", v |-> 1] /\ call.ack = "No")
                 => Frame(buf) = <<126, 255, 6, 3, 0, 0, 1, 254, 247, 239>>
           /\ (call.cmd = [tag |-> "SetPlaybackSource", source |-> "Flash"]
                  /\ call.ack = "No")
                 => Frame(buf) = <<126, 255, 6, 9, 0, 0, 4, 254, 238, 239>>

\* a volume outside 0..30 serialised with an ACK request
C6_Witness ==
    /\ call = [fn |-> "serialise_with_ack",
               cmd |-> [tag |-> "SetVolume", v |-> 65535], ack |-> "Yes"]
    /\ ret = Ok(10)
    /\ Frame(buf) = <<126, 255, 6, 6, 1, 255, 255, 252, 246, 239>>

\* C8: into a buffer of fewer than ten bytes serialise and
\* serialise_with_ack return Err(BufferTooShort) and write nothing.
C8_BufferTooShort ==
    (Called /\ Len(buf0) < FRAME_LEN)
        => (ret = Err(BufferTooShort) /\ buf = buf0)

\* a nine-byte buffer holding old data is refused and left as it was
C8_Witness ==
    /\ Called /\ Len(buf0) = 9 /\ buf0[1] = 126 /\ call.fn = "serialise"
    /\ ret = Err(BufferTooShort) /\ buf = buf0

\* C9: on success only the first ten bytes of the buffer are written: the
\* buffer keeps its length and its bytes from index 10 on, and the frame is
\* the one the same command and ack flag give in a zeroed buffer.
C9_OnlyFirstTen ==
    (Called /\ ret.kind = "Ok")
        => /\ Len(buf) = Len(buf0)
           /\ \A i \in (FRAME_LEN + 1)..Len(buf) : buf[i] = buf0[i]
           /\ Frame(buf) =
                  Written(call.cmd, call.ack, [i \in 1..FRAME_LEN |-> 0])

\* a frame written over old data in a buffer longer than the frame
C9_Witness ==
    /\ Called /\ ret.kind = "Ok" /\ Len(buf) > FRAME_LEN
    /\ buf0[1] = 126 /\ buf0[4] # buf[4] /\ buf[Len(buf)] # 0

(***************************************************************************)
(* The checksum, as the encoder and as the parser compute it               *)
(***************************************************************************)
\* payload bytes the checksum is computed for
CkCmdBytes == Byte
CkFeedbackBytes == {0, 1, 255}
CkParamHBytes == {0, 128, 255}
CkParamLBytes == {0, 1, 127, 255}

\* the checksum bytes serialise_with_ack writes behind the payload p
EncoderChecksumBytes(p) ==
    LET b == <<START, VERSION, 6, p[1], p[2], p[3], p[4], 0, 0, 0>>
        checksum == EncodeChecksum(b)
    IN  <<AsU8(Shr8(checksum)), AsU8(checksum)>>

\* the checksum bytes process_byte compares the received ones with
ParserChecksumBytes(p) ==
    I16ToBeBytes(calculate_checksum(p[1], p[2], p[3], p[4]))

\* both checksums are computed for the payload k_in
Checksum ==
    /\ k_enc = <<>>
    /\ k_enc' = EncoderChecksumBytes(k_in)
    /\ k_par' = ParserChecksumBytes(k_in)
    /\ UNCHANGED <<k_in, parserVars, lineVars, encVars, decVars, rawVars, auxVars>>

InitCk ==
    /\ ParserNew /\ LineIdle /\ EncUnused /\ DecUnused /\ RawUnused /\ AuxUnused
    /\ k_in \in CkCmdBytes \X CkFeedbackBytes \X CkParamHBytes \X CkParamLBytes
    /\ k_enc = <<>> /\ k_par = <<>>

NextCk == Checksum

SpecCk == InitCk /\ [][NextCk]_vars

\* the sum of the six payload bytes, each counted as 0..255
PayloadSum(p) == 255 + 6 + p[1] + p[2] + p[3] + p[4]

\* C7: the checksum of [VERSION, LEN, cmd, feedback, param_h, param_l] is
\* (65536 - sum) mod 65536 with every byte counted as 0..255, stored high
\* byte first; the encoder and the parser compute the same two bytes, and
\* [0xFF, 0x06, 0x03, 0x00, 0x00, 0x01] gives 0xFE, 0xF7.
C7_Checksum ==
    k_enc # <<>> =>
        LET n == (65536 - PayloadSum(k_in)) % 65536 IN
        /\ k_par = <<n \div 256, n % 256>>
        /\ k_enc = k_par
        /\ k_in = <<3, 0, 0, 1>> => k_par = <<254, 247>>

\* a payload whose bytes are 128 or more, the sum above 1000
C7_Witness ==
    /\ k_in = <<255, 255, 255, 255>>
    /\ k_enc = <<250, 255>> /\ k_par = <<250, 255>>

(***************************************************************************)
(* The decoder on its own                                                  *)
(***************************************************************************)
\* arguments Response::parse is called with
DecCmdBytes == Byte
DecParamHBytes == {0, 1, 255}
DecParamLBytes == Byte

\* faulty variant: the arms of DiskInserted and DiskOnline exchanged
Decode_swapped(c, ph, pl) ==
    CASE c = 58 -> Response_parse(63, ph, pl)
      [] c = 63 -> Response_parse(58, ph, pl)
      [] OTHER -> Response_parse(c, ph, pl)

\* the call Response::parse(cmd, param_h, param_l)
Decode(c, ph, pl) == Response_parse(c, ph, pl)

\* Response::parse is called with the arguments d_in
Parse ==
    /\ d_out = NoResult
    /\ d_out' = Decode(d_in[1], d_in[2], d_in[3])
    /\ UNCHANGED <<d_in, parserVars, lineVars, encVars, ckVars, rawVars, auxVars>>

InitDec ==
    /\ ParserNew /\ LineIdle /\ EncUnused /\ CkUnused /\ RawUnused /\ AuxUnused
    /\ d_in \in DecCmdBytes \X DecParamHBytes \X DecParamLBytes
    /\ d_out = NoResult

NextDec == Parse

SpecDec == InitDec /\ [][NextDec]_vars

\* `d as u8` for a Disk
DiskCode(d) ==
    CASE d = "UDisk" -> 1 [] d = "Tf" -> 2 [] d = "Pc" -> 3
      [] d = "Flash" -> 4 [] d = "UDiskAndFlash" -> 5

\* `e as u8` for a ModuleErrorType
ModuleErrorTypeCode(e) ==
    CASE e = "Busy" -> 0 [] e = "IncompleteFrameReceived" -> 1
      [] e = "ChecksumError" -> 2

Disk == {"UDisk", "Tf", "Pc", "Flash", "UDiskAndFlash"}
ModuleErrorType == {"Busy", "IncompleteFrameReceived", "ChecksumError"}

\* the response is the variant `tag` carrying the Disk with code pl
IsDiskResponse(r, tag, pl) ==
    /\ r.tag = tag /\ DOMAIN r = {"tag", "disk"}
    /\ r.disk \in Disk /\ DiskCode(r.disk) = pl

\* C10: Response::parse dispatches on cmd: 0x3A DiskInserted, 0x3B
\* DiskRemoved, 0x3F DiskOnline with the Disk of param_l; 0x3C, 0x3D, 0x3E
\* the three FinishPlayback responses with param_h * 256 + param_l; 0x40
\* ModuleError with the ModuleErrorType of param_l; 0x41 Ack whatever the
\* parameters; every other cmd is Err(InvalidCommand(cmd)) whatever the
\* parameters.
C10_Dispatch ==
    d_out # NoResult =>
        LET c == d_in[1]
            ph == d_in[2]
            pl == d_in[3]
            r == d_out.val
        IN  /\ c = 58 /\ d_out.kind = "Ok" => IsDiskResponse(r, "DiskInserted", pl)
            /\ c = 59 /\ d_out.kind = "Ok" => IsDiskResponse(r, "DiskRemoved", pl)
            /\ c = 63 /\ d_out.kind = "Ok" => IsDiskResponse(r, "DiskOnline", pl)
            /\ c = 60 => d_out = Ok([tag |-> "UDiskFinishPlayback",
                                     param |-> ph * 256 + pl])
            /\ c = 61 => d_out = Ok([tag |-> "TfFinishPlayback",
                                     param |-> ph * 256 + pl])
            /\ c = 62 => d_out = Ok([tag |-> "FlashFinishPlayback",
                                     param |-> ph * 256 + pl])
            /\ c = 64 /\ d_out.kind = "Ok" =>
                   /\ r.tag = "ModuleError" /\ DOMAIN r = {"tag", "error"}
                   /\ r.error \in ModuleErrorType
                   /\ ModuleErrorTypeCode(r.error) = pl
            /\ c = 65 => d_out = Ok([tag |-> "Ack"])
            /\ c \in {58, 59, 63, 64} /\ d_out.kind = "Err" =>
                   d_out.err.tag # "InvalidCommand"
            /\ c \notin 58..65 => d_out = Err(InvalidCommand(c))

\* an unknown command byte with non-zero parameters
C10_Witness ==
    /\ d_in = <<170, 255, 1>>
    /\ d_out = Err([tag |-> "InvalidCommand", byte |-> 170])

\* C11: for cmd 0x3A, 0x3B, 0x3F Response::parse returns
\* Err(InvalidParameterValue) exactly when param_l is outside 0x01..0x05, and
\* for cmd 0x40 exactly when param_l is outside 0x00..0x02; inside the range
\* the result is Ok with the variant whose code is param_l and nothing else,
\* so param_h never affects the outcome and no default variant exists.
C11_InvalidParameter ==
    d_out # NoResult =>
        LET c == d_in[1]
            pl == d_in[3]
        IN  /\ c \in {58, 59, 63} =>
                IF pl \in 1..5
                THEN /\ d_out.kind = "Ok"
                     /\ DOMAIN d_out.val = {"tag", "disk"}
                     /\ d_out.val.disk \in Disk
                     /\ DiskCode(d_out.val.disk) = pl
                ELSE d_out = Err(InvalidParameterValue)
            /\ c = 64 =>
                IF pl \in 0..2
                THEN /\ d_out.kind = "Ok"
                     /\ DOMAIN d_out.val = {"tag", "error"}
                     /\ d_out.val.error \in ModuleErrorType
                     /\ ModuleErrorTypeCode(d_out.val.error) = pl
                ELSE d_out = Err(InvalidParameterValue)

\* DiskInserted with param_l 0x99 and a non-zero param_h is rejected
C11_Witness ==
    /\ d_in = <<58, 255, 153>>
    /\ d_out = Err(InvalidParameterValue)

(***************************************************************************)
(* Raw byte streams: process_byte called with any byte in any state        *)
(***************************************************************************)
\* the bytes the states of process_byte compare with, and one other byte
RawBytes == {0, START, VERSION, LEN, STOP}

\* the length of the stream when it is still the beginning of one frame
\* (START, VERSION, LEN, six bytes, STOP) after `byte` has been added to a
\* stream of length n; -1 when it is not
PrefixAfter(n, byte) ==
    CASE n = 0 -> IF byte = START THEN 1 ELSE -1
      [] n = 1 -> IF byte = VERSION THEN 2 ELSE -1
      [] n = 2 -> IF byte = LEN THEN 3 ELSE -1
      [] n \in 3..8 -> n + 1
      [] n = 9 -> IF byte = STOP THEN FRAME_LEN ELSE -1
      [] OTHER -> -1

\* one call parser.process_byte(byte) on a stream of arbitrary bytes
Feed(byte) ==
    /\ process_byte(byte)
    /\ in_byte' = byte
    /\ in_state' = state
    /\ sawStart' = (sawStart \/ byte = START)
    /\ sawStartVersion' =
           (sawStartVersion \/ (sawStart /\ in_byte = START /\ byte = VERSION))
    /\ pfx' = PrefixAfter(pfx, byte)
    /\ UNCHANGED <<tx, outs, fstate, fprev, run, completes>>
    /\ UNCHANGED <<encVars, decVars, ckVars, auxVars>>

NextRaw == \E byte \in RawBytes : Feed(byte)

SpecRaw == Init /\ [][NextRaw]_vars

\* C12: the three header gates follow the transition table: in Idle START
\* moves to Start and any other byte stays in Idle; in Start VERSION moves to
\* Version and any other byte moves to Idle; in Version 0x06 moves to Len
\* and any other byte moves to Idle; each of these calls returns Incomplete.
C12_HeaderGates ==
    result # NoResult =>
        /\ in_state = "Idle" =>
               /\ state = (IF in_byte = 126 THEN "Start" ELSE "Idle")
               /\ result = Ok(Incomplete)
        /\ in_state = "Start" =>
               /\ state = (IF in_byte = 255 THEN "Version" ELSE "Idle")
               /\ result = Ok(Incomplete)
        /\ in_state = "Version" =>
               /\ state = (IF in_byte = 6 THEN "Len" ELSE "Idle")
               /\ result = Ok(Incomplete)

\* a START byte met in Start: back to Idle
C12_Witness ==
    /\ result = Ok(Incomplete)
    /\ in_state = "Start" /\ in_byte = 126 /\ state = "Idle"

\* the state a new parser is in after the first n bytes of a frame, n >= 3
StateAfter(n) ==
    CASE n = 3 -> "Len"
      [] n = 4 -> "Cmd"
      [] n = 5 -> "Feedback"
      [] n = 6 -> "ParamH"
      [] n = 7 -> "ParamL"
      [] n = 8 -> "ChecksumH"
      [] n = 9 -> "ChecksumL"

\* C13: after the header START, VERSION, 0x06 the next six bytes are stored
\* as cmd, feedback, param_h, param_l, checksum_h, checksum_l whatever their
\* values: each of these calls returns Incomplete and advances exactly one
\* state, so the parser is in ChecksumL after exactly nine bytes of a frame.
C13_SixBytesStored ==
    /\ result # NoResult =>
        /\ in_state = "Len" =>
               cmd = in_byte /\ state = "Cmd" /\ result = Ok(Incomplete)
        /\ in_state = "Cmd" =>
               feedback = in_byte /\ state = "Feedback" /\ result = Ok(Incomplete)
        /\ in_state = "Feedback" =>
               param_h = in_byte /\ state = "ParamH" /\ result = Ok(Incomplete)
        /\ in_state = "ParamH" =>
               param_l = in_byte /\ state = "ParamL" /\ result = Ok(Incomplete)
        /\ in_state = "ParamL" =>
               checksum_h = in_byte /\ state = "ChecksumH" /\ result = Ok(Incomplete)
        /\ in_state = "ChecksumH" =>
               checksum_l = in_byte /\ state = "ChecksumL" /\ result = Ok(Incomplete)
    /\ pfx \in 3..9 => state = StateAfter(pfx)
    /\ state = "ChecksumL" /\ pfx # -1 => pfx = 9

\* nine bytes of a frame whose cmd is 0x7E and whose param_h is 0xEF
C13_Witness ==
    /\ pfx = 9 /\ state = "ChecksumL" /\ result = Ok(Incomplete)
    /\ cmd = 126 /\ param_h = 239 /\ checksum_l = 126

\* C14: in state ChecksumL a byte different from STOP makes process_byte
\* return Ok(Incomplete) and move to Idle, never an error and never Complete,
\* whatever the accumulated checksum and cmd; also when that byte is START
\* (the parser goes to Idle, not to Start).
C14_NoStopNoResult ==
    result # NoResult /\ in_state = "ChecksumL" /\ in_byte # 239 =>
        result = Ok(Incomplete) /\ state = "Idle"

\* START in the place of STOP, after an unknown cmd and a wrong checksum
C14_Witness ==
    /\ in_state = "ChecksumL" /\ in_byte = 126
    /\ cmd = 0 /\ checksum_h = 0 /\ checksum_l = 0
    /\ result = Ok(Incomplete) /\ state = "Idle"

FeedEncoded ==
    /\ Called /\ ret = Ok(FRAME_LEN)
    /\ Len(tx) < FRAME_LEN
    /\ LET byte == buf[Len(tx) + 1] IN
           /\ process_byte(byte)
           /\ tx' = Append(tx, byte)
           /\ outs' = Append(outs, result')
    /\ UNCHANGED <<fstate, fprev, run, completes>>
    /\ UNCHANGED <<encVars, decVars, ckVars, rawVars, auxVars>>

NextLoop ==
    \/ NextEnc
    \/ FeedEncoded

SpecLoop == InitEnc /\ [][NextLoop]_vars

\* C16: encoder and parser agree on framing and checksum: for every Command
\* and every RequestAck, the 10 bytes written by serialise_with_ack, fed to a
\* parser in Idle, return Incomplete nine times and never BadChecksum; the
\* tenth result is Response::parse(command_byte(), param() >> 8,
\* param() & 0xFF), wrapped as Complete or propagated as its error, and the
\* parser's stored cmd and parameter bytes equal command_byte() and param().
C16_EncoderParserAgree ==
    /\ \A i \in 1..Len(outs) :
           /\ i < FRAME_LEN => outs[i] = Ok(Incomplete)
           /\ outs[i] # Err(BadChecksum)
    /\ Len(tx) = FRAME_LEN =>
           LET c == call.cmd
               p == param(c)
               r == Response_parse(command_byte(c), p \div 256, p % 256)
           IN  /\ result = outs[FRAME_LEN]
               /\ result = (IF r.kind = "Ok" THEN Ok(Complete(r.val)) ELSE r)
               /\ cmd = command_byte(c)
               /\ param_h * 256 + param_l = p
               /\ feedback = RequestAckCode(call.ack)

\* Reply with an ACK requested comes back as Complete(Ack)
C16_Witness ==
    /\ Len(tx) = FRAME_LEN
    /\ call.cmd = [tag |-> "Reply"] /\ call.ack = "Yes"
    /\ result = Ok(Complete([tag |-> "Ack"]))

(***************************************************************************)
(* Command::param and Command::command_byte                                *)
(***************************************************************************)
\* the parameter a command's payload stands for: the 16-bit field, the
\* enum's code, two bytes concatenated, a flag, or 0 without payload
PayloadValue(c) ==
    CASE c.tag \in {"Track", "SetVolume", "InitialisationParameters"} -> c.v
      [] c.tag = "SetEq" -> EqModeCode(c.mode)
      [] c.tag = "SetPlaybackMode" -> PlaybackModeCode(c.mode)
      [] c.tag = "SetPlaybackSource" -> PlaybackSourceCode(c.source)
      [] c.tag = "SetFolder" -> c.folder * 256 + c.file
      [] c.tag = "SetVolumeAdjust" ->
            (IF c.enable THEN 1 ELSE 0) * 256 + c.gain
      [] c.tag = "RepeatPlay" -> IF c.on THEN 1 ELSE 0
      [] c.tag \in UnitCommands -> 0

\* C17: Command::param returns the 16-bit field itself for Track, SetVolume
\* and InitialisationParameters; the enum's numeric code for SetEq,
\* SetPlaybackMode and SetPlaybackSource; folder * 256 + file for SetFolder;
\* (1 if enable else 0) * 256 + gain for SetVolumeAdjust; 0 or 1 for
\* RepeatPlay; and 0 for every parameterless variant.
C17_ParamIsPayload ==
    Called =>
        /\ param(call.cmd) = PayloadValue(call.cmd)
        /\ ret = Ok(FRAME_LEN) =>
               buf[6] * 256 + buf[7] = PayloadValue(call.cmd)

\* the variants of Command in the order of their declaration
Declared ==
    <<"Next", "Previous", "Track", "IncreaseVolume", "DecreaseVolume",
      "SetVolume", "SetEq", "SetPlaybackMode", "SetPlaybackSource",
      "Standby", "Wake", "Reset", "Playback", "Pause", "SetFolder",
      "SetVolumeAdjust", "RepeatPlay", "Stay1", "Stay2", "Stay3",
      "InitialisationParameters", "RequestRetransmission", "Reply",
      "GetStatus", "GetVolume", "GetEq", "GetPlaybackMode",
      "GetSoftwareVersion", "GetTfFileCount", "GetUDiskFileCount",
      "GetFlashFileCount", "KeepOn", "GetTfCurrentTrack",
      "GetUDiskCurrentTrack", "GetFlashCurrentTrack">>

\* the byte of the variant named t: the first 17 count from 0x01, the next
\* six from 0x3C, GetStatus is 0x41 and the rest count from 0x43
ByteOfVariant(t) ==
    LET i == CHOOSE k \in 1..Len(Declared) : Declared[k] = t IN
    CASE i \in 1..17 -> i
      [] i \in 18..23 -> 60 + (i - 18)
      [] i = 24 -> 65
      [] i \in 25..35 -> 67 + (i - 25)

\* C18: Command::command_byte maps every variant to exactly one byte that
\* depends only on the variant and not on its payload: Next..RepeatPlay to
\* 0x01..0x11 in declaration order, Stay1..Reply to 0x3C..0x41, GetStatus to
\* 0x41, GetVolume..GetFlashCurrentTrack to 0x43..0x4D in declaration order;
\* no variant produces 0x42.
C18_CommandByte ==
    Called =>
        /\ command_byte(call.cmd) = ByteOfVariant(call.cmd.tag)
        /\ command_byte(call.cmd) # 66
        /\ \A d \in Command :
               d.tag = call.cmd.tag => command_byte(d) = command_byte(call.cmd)
        /\ ret = Ok(FRAME_LEN) => buf[4] = ByteOfVariant(call.cmd.tag)

\* GetStatus is written as 0x41, the byte of Reply
C18_Witness ==
    /\ Called /\ call.cmd = [tag |-> "GetStatus"]
    /\ ret = Ok(FRAME_LEN) /\ buf[4] = 65

(***************************************************************************)
(* The legacy encoder Control::serialise of the root crate (src/lib.rs)    *)
(***************************************************************************)
\* the variants of Control that carry no payload
ControlUnits ==
    {"Next", "Previous", "IncreaseVolume", "DecreaseVolume", "Standby",
     "Normal", "Reset", "Playback", "Pause"}

\* the values of Control, payloads drawn from the samples
Control ==
    {[tag |-> t] : t \in ControlUnits}
    \cup {[tag |-> t, v |-> n] :
            t \in {"Track", "SetVolume", "SetFolder", "SetVolumeAdjust",
                   "RepeatPlay"},
            n \in U16Samples}
    \cup {[tag |-> "SetEq", mode |-> e] : e \in EqMode}
    \cup {[tag |-> "SetPlaybackMode", mode |-> m] : m \in PlaybackMode}
    \cup {[tag |-> "SetPlaybackSource", source |-> x] : x \in PlaybackSource}

\* Control::command_byte
Control_command_byte(c) ==
    CASE c.tag = "Next" -> 1
      [] c.tag = "Previous" -> 2
      [] c.tag = "Track" -> 3
      [] c.tag = "IncreaseVolume" -> 4
      [] c.tag = "DecreaseVolume" -> 5
      [] c.tag = "SetVolume" -> 6
      [] c.tag = "SetEq" -> 7
      [] c.tag = "SetPlaybackMode" -> 8
      [] c.tag = "SetPlaybackSource" -> 9
      [] c.tag = "Standby" -> 10
      [] c.tag = "Normal" -> 11
      [] c.tag = "Reset" -> 12
      [] c.tag = "Playback" -> 13
      [] c.tag = "Pause" -> 14
      [] c.tag = "SetFolder" -> 15
      [] c.tag = "SetVolumeAdjust" -> 16
      [] c.tag = "RepeatPlay" -> 17

\* Control::param
Control_param(c) ==
    CASE c.tag = "Track" -> c.v
      [] c.tag = "SetVolume" -> c.v
      [] c.tag = "SetEq" -> EqModeCode(c.mode)
      [] c.tag = "SetPlaybackMode" -> PlaybackModeCode(c.mode)
      [] c.tag = "SetPlaybackSource" -> PlaybackSourceCode(c.source)
      [] c.tag = "SetFolder" -> c.v
      [] c.tag = "SetVolumeAdjust" -> c.v
      [] c.tag = "RepeatPlay" -> c.v
      [] OTHER -> 0

\* the checksum of Control::serialise: minus the i16 sum of buf[1..7]
Control_checksum(b) ==
    NegI16(SumI16([i \in 1..6 |-> I16FromU8(b[i + 1])]))

\* the buffer after the writes of Control::serialise
Control_written(c, b) ==
    LET p == Control_param(c)
        b0 == Put(b, 0, START)
        b1 == Put(b0, 1, VERSION)
        b2 == Put(b1, 2, 6)
        b3 == Put(b2, 3, Control_command_byte(c))
        b4 == Put(b3, 4, RequestAckCode("No"))
        b5 == Put(b4, 5, AsU8(Shr8(p)))
        b6 == Put(b5, 6, AsU8(p))
        checksum == Control_checksum(b6)
        b7 == Put(b6, 7, AsU8(Shr8(checksum)))
        b8 == Put(b7, 8, AsU8(checksum))
    IN  Put(b8, 9, STOP)

\* Control::serialise(buf) of control c
Control_serialise(c) ==
    /\ buf0' = buf
    /\ IF Len(buf) < FRAME_LEN
       THEN ret' = Err(BufferTooShort) /\ buf' = buf
       ELSE ret' = Ok(FRAME_LEN) /\ buf' = Control_written(c, buf)
    /\ UNCHANGED <<parserVars, lineVars, decVars, ckVars, rawVars, auxVars>>

\* a caller of the root crate serialises control c into its buffer
CallControlSerialise(c) ==
    /\ call = NoCall
    /\ call' = [fn |-> "Control::serialise", cmd |-> c, ack |-> "No"]
    /\ Control_serialise(c)

NextLegacy == \E c \in Control : CallControlSerialise(c)

SpecLegacy == InitEnc /\ [][NextLegacy]_vars

\* C19: the legacy encoder Control::serialise writes the datasheet
\* checksums: Control::Track(1) serialises to 7E FF 06 03 00 00 01 FF E6 EF
\* and Control::SetPlaybackSource(Flash) to 7E FF 06 09 00 00 04 FF DD EF,
\* each returning length 10.
C19_DatasheetChecksums ==
    Called /\ Len(buf0) >= FRAME_LEN =>
        /\ call.cmd = [tag |-> "Track", v |-> 1] =>
               /\ ret = Ok(10)
               /\ Frame(buf) = <<126, 255, 6, 3, 0, 0, 1, 255, 230, 239>>
        /\ call.cmd = [tag |-> "SetPlaybackSource", source |-> "Flash"] =>
               /\ ret = Ok(10)
               /\ Frame(buf) = <<126, 255, 6, 9, 0, 0, 4, 255, 221, 239>>

\* C20: the parser never backtracks: in Start a START byte is a mismatch
\* that sends the parser to Idle rather than restarting a frame, so when a
\* parser in Idle is fed one stray 0x7E followed immediately by a complete
\* valid frame, all eleven calls return Incomplete and that frame is never
\* reported.
C20_StrayStartHidesFrame ==
    fstate = "Start" =>
        /\ fprev = "Incomplete"
        /\ \A i \in 1..Len(outs) : outs[i] = Ok(Incomplete)
        /\ Len(tx) = 1 => state = "Idle"
        /\ FrameDone /\ ValidFrame(tx) =>
               /\ Len(outs) = FRAME_LEN
               /\ result = Ok(Incomplete)
               /\ completes = 0

\* a frame the decoder would accept, fed right after a stray START byte
C20_Witness ==
    /\ fstate = "Start" /\ fprev = "Incomplete"
    /\ FrameDone /\ GoodFrame(tx)
    /\ result = Ok(Incomplete)

(***************************************************************************)
(* Two parsers fed the same stream                                         *)
(***************************************************************************)
\* Parser::process_byte(byte) on the parser value p: the parser afterwards,
\* with the value returned in the field result
ParserStep(p, byte) ==
    [state |-> NextState(p.state, byte),
     cmd |-> IF p.state = "Len" THEN byte ELSE p.cmd,
     feedback |-> IF p.state = "Cmd" THEN byte ELSE p.feedback,
     param_h |-> IF p.state = "Feedback" THEN byte ELSE p.param_h,
     param_l |-> IF p.state = "ParamH" THEN byte ELSE p.param_l,
     checksum_h |-> IF p.state = "ParamL" THEN byte ELSE p.checksum_h,
     checksum_l |-> IF p.state = "ChecksumH" THEN byte ELSE p.checksum_l,
     result |-> ReturnValue(p.state, byte, p.cmd, p.feedback, p.param_h,
                            p.param_l, p.checksum_h, p.checksum_l)]

\* what earlier frames may have left in cmd, feedback, param_h, param_l,
\* checksum_h, checksum_l of a parser that is back in Idle: the values of
\* Parser::new, of an Ack frame and of a DiskRemoved(Tf) frame
StaleFields ==
    {<<0, 0, 0, 0, 0, 0>>,
     <<65, 0, 0, 0, 254, 186>>,
     <<59, 0, 0, 2, 254, 190>>}

\* a parser in Idle holding the fields f
IdleParser(f) ==
    [state |-> "Idle", cmd |-> f[1], feedback |-> f[2], param_h |-> f[3],
     param_l |-> f[4], checksum_h |-> f[5], checksum_l |-> f[6],
     result |-> NoResult]

\* both parsers are passed the same byte
FeedBoth(byte) ==
    /\ process_byte(byte)
    /\ twin' = ParserStep(twin, byte)
    /\ UNCHANGED <<tx, outs, fstate, fprev, run, completes>>
    /\ UNCHANGED <<calls, hits, since, gap, away, fb_in, fb_out>>
    /\ UNCHANGED <<encVars, decVars, ckVars, rawVars>>

\* two parsers in Idle, each with its own stale fields
InitTwin ==
    /\ LineIdle /\ EncUnused /\ DecUnused /\ CkUnused /\ RawUnused
    /\ state = "Idle"
    /\ \E f \in StaleFields :
           /\ cmd = f[1] /\ feedback = f[2] /\ param_h = f[3]
           /\ param_l = f[4] /\ checksum_h = f[5] /\ checksum_l = f[6]
    /\ \E f \in StaleFields : twin = IdleParser(f)
    /\ calls = 0 /\ hits = 0 /\ since = 0 /\ gap = 0 /\ away = 0
    /\ fb_in = <<0, 0, 0, 0, 0>> /\ fb_out = <<>>

NextTwin == \E byte \in RawBytes : FeedBoth(byte)

SpecTwin == InitTwin /\ [][NextTwin]_vars

MaxCalls == 20

\* the bytes process_byte compares with; the six stored bytes are any of them
CountBytes == {START, VERSION, LEN, STOP}

\* one call parser.process_byte(byte), counted
FeedCounted(byte) ==
    LET hit == result' # Ok(Incomplete) IN
    /\ calls < MaxCalls
    /\ process_byte(byte)
    /\ in_byte' = byte
    /\ in_state' = state
    /\ calls' = calls + 1
    /\ hits' = IF hit THEN hits + 1 ELSE hits
    /\ gap' = IF hit THEN since + 1 ELSE gap
    /\ since' = IF hit THEN 0 ELSE since + 1
    /\ away' = IF state' = "Idle" THEN 0 ELSE away + 1
    /\ UNCHANGED <<tx, outs, fstate, fprev, run, completes>>
    /\ UNCHANGED <<sawStart, sawStartVersion, pfx, twin, fb_in, fb_out>>
    /\ UNCHANGED <<encVars, decVars, ckVars>>

NextCount == \E byte \in CountBytes : FeedCounted(byte)

SpecCount == Init /\ [][NextCount]_vars

C23_BackInIdle ==
    /\ away <= 9
    /\ state # "Idle" => away >= 1
    /\ state = "Idle" => away = 0

\* nine calls away from Idle: the parser waits for STOP
C23_Witness ==
    /\ away = 9 /\ state = "ChecksumL" /\ calls > 9

(***************************************************************************)
(* Frames that differ in the feedback byte                                 *)
(***************************************************************************)
\* the ten bytes of a frame with payload c, f, ph, pl and checksum bytes ck
WireFrame(c, f, ph, pl, ck) ==
    <<START, VERSION, LEN, c, f, ph, pl, ck[1], ck[2], STOP>>

\* the values process_byte returns, one per byte, when the bytes t are
\* passed in order to the parser p
RECURSIVE Results(_, _)
Results(p, t) ==
    IF t = <<>> THEN <<>>
    ELSE LET q == ParserStep(p, Head(t)) IN
         <<q.result>> \o Results(q, Tail(t))

FbCmdBytes == Byte
FbFeedbackBytes == {0, 1, 255}
FbParamHBytes == {0, 255}
FbParamLBytes == {0, 1, 2, 6, 255}

\* three new parsers are fed: the frame with feedback f1, the frame with
\* feedback f2, and the frame with feedback f2 under the checksum of f1
CompareFeedback ==
    LET c == fb_in[1]
        f1 == fb_in[2]
        f2 == fb_in[3]
        ph == fb_in[4]
        pl == fb_in[5]
        new == IdleParser(<<0, 0, 0, 0, 0, 0>>)
    IN  /\ fb_out = <<>>
        /\ fb_out' =
              <<Results(new, WireFrame(c, f1, ph, pl, WireChecksum(c, f1, ph, pl))),
                Results(new, WireFrame(c, f2, ph, pl, WireChecksum(c, f2, ph, pl))),
                Results(new, WireFrame(c, f2, ph, pl, WireChecksum(c, f1, ph, pl)))>>
        /\ UNCHANGED <<fb_in, twin, calls, hits, since, gap, away>>
        /\ UNCHANGED <<parserVars, lineVars, encVars, decVars, ckVars, rawVars>>

InitFb ==
    /\ ParserNew /\ LineIdle /\ EncUnused /\ DecUnused /\ CkUnused /\ RawUnused
    /\ twin = [tag |-> "None"]
    /\ calls = 0 /\ hits = 0 /\ since = 0 /\ gap = 0 /\ away = 0
    /\ fb_in \in FbCmdBytes \X FbFeedbackBytes \X FbFeedbackBytes
                 \X FbParamHBytes \X FbParamLBytes
    /\ fb_out = <<>>

NextFb == CompareFeedback

SpecFb == InitFb /\ [][NextFb]_vars

\* C24: the feedback byte of an inbound frame is covered by the checksum
\* but ignored by decoding: two valid frames that differ only in the
\* feedback byte (and the adjusted checksum bytes) produce the same
\* Complete(response) or the same decode error, while changing the feedback
\* byte without changing the checksum bytes yields BadChecksum.
C24_FeedbackIgnored ==
    fb_out # <<>> /\ fb_in[2] # fb_in[3] =>
        LET r == Response_parse(fb_in[1], fb_in[4], fb_in[5]) IN
        /\ fb_out[1] = fb_out[2]
        /\ fb_out[1][FRAME_LEN] =
               (IF r.kind = "Ok" THEN Ok(Complete(r.val)) ELSE r)
        /\ fb_out[3][FRAME_LEN] = Err(BadChecksum)
        /\ \A i \in 1..9 : fb_out[3][i] = Ok(Incomplete)

\* DiskRemoved(Tf) with feedback 0 and with feedback 1
C24_Witness ==
    /\ fb_in = <<59, 0, 1, 0, 2>>
    /\ fb_out # <<>>
    /\ fb_out[2][FRAME_LEN] =
           Ok(Complete([tag |-> "DiskRemoved", disk |-> "Tf"]))
    /\ fb_out[3][FRAME_LEN] = Err(BadChecksum)

\* C25: the signed 16-bit checksum arithmetic never overflows: for every
\* six-byte payload that starts with VERSION and LEN the sum lies in
\* 261..1281, so neither the sum nor its negation wraps, the checksum is
\* never 0x0000 and its high byte is always in 0xFA..0xFE, in both the
\* encoder and the parser.
C25_NoOverflow ==
    k_enc # <<>> =>
        LET sum == PayloadSum(k_in)
            b == <<START, VERSION, 6, k_in[1], k_in[2], k_in[3], k_in[4]>>
        IN  /\ sum \in 261..1281
            /\ calculate_checksum(k_in[1], k_in[2], k_in[3], k_in[4]) = 0 - sum
            /\ EncodeChecksum(b) = 0 - sum
            /\ k_enc # <<0, 0>> /\ k_par # <<0, 0>>
            /\ k_enc[1] \in 250..254 /\ k_par[1] \in 250..254

\* the largest sum, 1281: the checksum is 0xFAFF
C25_Witness ==
    /\ k_in = <<255, 255, 255, 255>>
    /\ k_enc = <<250, 255>> /\ k_par = <<250, 255>>

\* C26: apart from Command::Reply and Command::GetStatus, which share
\* command byte 0x41 and serialise to identical frames, serialise_with_ack
\* is injective: two different (Command, RequestAck) pairs always produce
\* two different 10-byte frames.
C26_Injective ==
    Called /\ ret = Ok(FRAME_LEN) =>
        \A d \in Command, a \in RequestAck :
            /\ <<d, a>> # <<call.cmd, call.ack>>
            /\ {d.tag, call.cmd.tag} # {"Reply", "GetStatus"}
            => Frame(Written(d, a, buf0)) # Frame(buf)

====
